---------------------------- MODULE Spec2Model ----------------------------
(***************************************************************************)
(* Model of adaptive_geohash_sql.py: the predicate builder                 *)
(* get_geohash_where_clause and the search adaptive_geohash_nearby_search  *)
(* (validation, the adaptive precision loop, the row fetch, the sort by    *)
(* distance and the slice).                                                *)
(*                                                                         *)
(* A SQL string is a sequence of string tokens, concatenation is \o and    *)
(* the empty string is << >>.  The geohash codec and the database are the  *)
(* environment: what geohash.expand_uint64 returns, what a count query     *)
(* returns and which rows a fetch returns are chosen with \E.              *)
(***************************************************************************)
EXTENDS Integers, Sequences, FiniteSets, TLC

VARIABLES
    pc,                     \* position in adaptive_geohash_nearby_search
    latNum, lonNum,         \* isinstance(latitude / longitude, (int, float))
    lcInt, ucInt,           \* isinstance(lower_cut / upper_cut, int)
    latitude, longitude,    \* the point searched around (whole degrees)
    lower_cut, upper_cut,   \* the slice wanted
    custom_where_clause,    \* the caller's SQL fragment
    select_cols,            \* the caller's list of columns (a mutable list)
    caller_cols,            \* history: that list as it was when passed
    max_result_cap,
    precision, previous_precision,
    previous_result_size, previous_where_clause,
    stop, fall_back, loop_count,
    where_clause, result_size,
    data,                   \* rows returned by the fetch query
    result,                 \* the rows returned to the caller
    outcome,                \* how the call ended
    countPreds,             \* history: predicates passed to count queries
    countQueries,           \* history: number of count queries issued
    lastCountPred,          \* history: predicate of the latest count query
    lastProbed,             \* history: precision of the latest count query
    fetchPreds,             \* history: predicates passed to fetch queries
    iterations,             \* history: iterations of the while loop begun
    emptyAt,                \* history: iteration whose geohash clause was
                            \* empty, 0 when there is none
    allBelow,               \* history: every count so far was below the cap
    bound_ranges,           \* what geohash.expand_uint64 returned last
    probeOrder,             \* history: "falling" while every count query
                            \* probed a lower precision than the one before
                            \* it, else "repeated" or "rose"
    maxCount,               \* history: the largest count returned so far
    maxClause,              \* history: predicate of the latest count query
                            \* that returned no less than those before it
    regressed               \* history: the latest count was below the
                            \* count recorded before it

vars == << pc, latNum, lonNum, lcInt, ucInt, latitude, longitude, lower_cut,
           upper_cut, custom_where_clause, select_cols, max_result_cap,
           precision, previous_precision, previous_result_size,
           previous_where_clause, stop, fall_back, loop_count, where_clause,
           result_size, data, result, outcome, countPreds, countQueries,
           lastCountPred, lastProbed, fetchPreds, iterations, emptyAt,
           allBelow, regressed, caller_cols, bound_ranges, probeOrder,
           maxCount, maxClause >>

-----------------------------------------------------------------------------
(* Bounds of the model *)

\* count queries return 0 .. max_result_cap + MaxOver
MaxOver == 1
\* the largest upper_cut above the floor of 20 is 20 + MaxCapOver
MaxStepCapOver == 8
MaxRanges == 2
MaxBound == 2
MaxCapOver == 1

(* Program constants *)

MAX_DB_HITS == 20
StartPrecision == 50
MinResultCap == 20

\* None among unsigned integers
None == -1

-----------------------------------------------------------------------------
(* Python helpers *)

Max(a, b) == IF a >= b THEN a ELSE b
Min(a, b) == IF a <= b THEN a ELSE b
Abs(a) == IF a >= 0 THEN a ELSE 0 - a

\* bool(x) of an optional unsigned integer: None and 0 are falsy
Truthy(x) == x # None /\ x # 0

\* " OR ".join(clauses)
RECURSIVE JoinOr(_)
JoinOr(clauses) ==
    IF Len(clauses) = 0 THEN << >>
    ELSE IF Len(clauses) = 1 THEN Head(clauses)
    ELSE Head(clauses) \o << " OR " >> \o JoinOr(Tail(clauses))

\* seq[lo:hi] with Python's rules for negative and out-of-range indices
SliceIndex(i, n) == IF i < 0 THEN Max(i + n, 0) ELSE Min(i, n)
\* the slice taken from the start of the list
PySlice_FromStart(seq, lo, hi) ==
    LET b == SliceIndex(hi, Len(seq))
    IN  IF b <= 0 THEN << >> ELSE SubSeq(seq, 1, b)

PySlice(seq, lo, hi) ==
    LET a == SliceIndex(lo, Len(seq))
        b == SliceIndex(hi, Len(seq))
    IN  IF a >= b THEN << >> ELSE SubSeq(seq, a + 1, b)

-----------------------------------------------------------------------------
(* distance, lines 8-16.  The rows of the model lie on whole degrees; the   *)
(* central angle of two points on one meridian is |lat1 - lat2| and on the  *)
(* equator |long1 - long2|, so the distance is counted in units of          *)
(* EQUATORIAL_R * pi / 180 km.                                              *)

distance(lat1, long1, lat2, long2) ==
    IF lat1 = lat2 /\ long1 = long2 THEN 0
    ELSE Abs(lat1 - lat2) + Abs(long1 - long2)

-----------------------------------------------------------------------------
(* get_geohash_where_clause, lines 38-49.  ranges is what                   *)
(* geohash.expand_uint64(coord_geoint, precision) returned: a sequence of   *)
(* pairs << lower, upper >>, each None or an unsigned integer.              *)

SubClause(bound_range, geoint_col_name) ==
    IF Truthy(bound_range[1]) /\ Truthy(bound_range[2])
    THEN << << "(", geoint_col_name, ">=", ToString(bound_range[1]), " AND ",
               geoint_col_name, "<", ToString(bound_range[2]), ")" >> >>
    ELSE IF Truthy(bound_range[1])
    THEN << << "(", geoint_col_name, ">=", ToString(bound_range[1]), ")" >> >>
    ELSE IF Truthy(bound_range[2])
    THEN << << "(", geoint_col_name, "<", ToString(bound_range[2]), ")" >> >>
    ELSE << >>

RECURSIVE SubClauses(_, _)
SubClauses(ranges, geoint_col_name) ==
    IF Len(ranges) = 0 THEN << >>
    ELSE SubClause(Head(ranges), geoint_col_name)
         \o SubClauses(Tail(ranges), geoint_col_name)

get_geohash_where_clause(ranges, geoint_col_name) ==
    LET sub_clauses == SubClauses(ranges, geoint_col_name)
    IN  IF Len(sub_clauses) = 0 THEN << >>
        ELSE << "(" >> \o JoinOr(sub_clauses) \o << ")" >>

-----------------------------------------------------------------------------
(* The precision step, lines 135-171.  percent_returned is                  *)
(* float(result_size) / float(max_result_cap); both are small integers, so  *)
(* each comparison of the quotient with 0.05, 0.25 and 0.5 is decided       *)
(* exactly by the cross-multiplied integers (0.05 is the double nearest     *)
(* 1/20, which is also what 1.0 / 20.0 evaluates to).                       *)

StepFloor(p, guard, step, floor) ==
    IF p <= guard THEN p - 1 ELSE Max(floor, p - step)

\* the quarter compared with <= in place of <
AdjustPrecision_QuarterInclusive(p, size, cap) ==
    LET q == IF size = 0 /\ cap > 20 THEN StepFloor(p, 4, 8, 4)
             ELSE IF size = 0 /\ cap <= 20 THEN StepFloor(p, 4, 7, 4)
             ELSE IF 20 * size <= cap THEN StepFloor(p, 4, 6, 4)
             ELSE IF 4 * size <= cap THEN StepFloor(p, 4, 4, 4)
             ELSE IF 2 * size < cap THEN StepFloor(p, 3, 2, 3)
             ELSE p - 1
    IN  Max(0, q)

\* the step without the floor 0 of line 171
AdjustPrecision_NoFloor(p, size, cap) ==
    IF size = 0 /\ cap > 20 THEN StepFloor(p, 4, 8, 4)
    ELSE IF size = 0 /\ cap <= 20 THEN StepFloor(p, 4, 7, 4)
    ELSE IF 20 * size <= cap THEN StepFloor(p, 4, 6, 4)
    ELSE IF 4 * size < cap THEN StepFloor(p, 4, 4, 4)
    ELSE IF 2 * size < cap THEN StepFloor(p, 3, 2, 3)
    ELSE p - 1

AdjustPrecision(p, size, cap) ==
    LET q == IF size = 0 /\ cap > 20 THEN StepFloor(p, 4, 8, 4)
             ELSE IF size = 0 /\ cap <= 20 THEN StepFloor(p, 4, 7, 4)
             ELSE IF 20 * size <= cap THEN StepFloor(p, 4, 6, 4)
             ELSE IF 4 * size < cap THEN StepFloor(p, 4, 4, 4)
             ELSE IF 2 * size < cap THEN StepFloor(p, 3, 2, 3)
             ELSE p - 1
    IN  Max(0, q)

-----------------------------------------------------------------------------
(* The environment *)

\* geoint_col.name
GeoCol == "geoint"

\* What geohash.expand_uint64 may return for the key and a precision: the
\* ranges of the cells around the point at that precision, or nothing that
\* bounds the column.
RangesAt(p) ==
    IF p >= 30 THEN << << 1, 2 >> >>
    ELSE IF p >= 4 THEN << << 0, 3 >>, << 2, None >> >>
    ELSE << << None, 5 >> >>
ExpandResults(p) == { << >>, << << None, None >> >>, RangesAt(p) }

\* lat_col and lon_col
LatCol == "lat"
LonCol == "lon"

\* The calls made.  BaseRequest is a well-formed call; the others change
\* the types of the four checked parameters, the slice, the custom clause
\* or the list of columns.  A latitude or longitude that is no number is a
\* str; a cut that is no int is the float of the same value.
BaseRequest ==
    [ latNum |-> TRUE, lonNum |-> TRUE, lcInt |-> TRUE, ucInt |-> TRUE,
      lower_cut |-> 0, upper_cut |-> 2,
      custom_where_clause |-> << >>, select_cols |-> << "id" >> ]
Cuts ==
    { << 0, 0 >>, << 1, 2 >>, << 3, 5 >>, << 3, 2 >>, << -1, 2 >> }
    \cup { << lo, MinResultCap + MaxCapOver >> : lo \in { 0, 3 } }
Requests ==
    { [ BaseRequest EXCEPT !.latNum = f[1], !.lonNum = f[2],
                           !.lcInt = f[3], !.ucInt = f[4] ] :
        f \in BOOLEAN \X BOOLEAN \X BOOLEAN \X BOOLEAN }
    \cup { [ BaseRequest EXCEPT !.lower_cut = c[1], !.upper_cut = c[2] ] :
             c \in Cuts }
    \cup { [ BaseRequest EXCEPT !.lower_cut = c[1], !.upper_cut = c[2],
                                !.custom_where_clause = << " AND status='active'" >> ] :
             c \in { << 0, 2 >>, << 3, 5 >> } }
    \cup { [ BaseRequest EXCEPT !.select_cols = cols ] :
             cols \in { << "id", "lat", "lon" >>, << "lon" >> } }

\* what a count query may return: a count of each band of the precision
\* step below the cap, and the counts from the cap on
Counts(cap) == { 0, 1, 3, 7, 12 } \cup (cap .. cap + MaxOver)

\* The rows a fetch returns: as many as the count query counted for the
\* predicate, on the meridian of the point searched around (latitude 1),
\* their latitudes repeating a pattern: out of order, all at one distance,
\* or in order with ties.
Patterns == { << 0, 1 >>, << 0, 2 >>, << 1, 0, 2 >> }
Rows(n, pattern, lon) ==
    [ i \in 1 .. n |->
        [ id |-> i, lat |-> pattern[((i - 1) % Len(pattern)) + 1], lon |-> lon ] ]

-----------------------------------------------------------------------------
(* adaptive_geohash_nearby_search *)

\* line 88: the condition under which InvalidParamException is raised
InvalidParams(lat_ok, lon_ok, lc_ok, uc_ok) ==
    ~ (lat_ok \/ ~ lon_ok \/ ~ lc_ok \/ ~ uc_ok)

\* lines 90-93: select_cols.append(col) unless col is in it
AppendIfAbsent(cols, col) ==
    IF \E i \in 1 .. Len(cols) : cols[i] = col THEN cols ELSE Append(cols, col)

\* lines 94-97
ResultCap(uc) == Max(uc, MinResultCap)

\* the custom clause put in front of the geohash clause
CombinedClause_Prepended(clause, custom) ==
    IF Len(custom) > 0 THEN custom \o clause ELSE clause

\* lines 114-115
CombinedClause(clause, custom) ==
    IF Len(custom) > 0 THEN clause \o custom ELSE clause

\* the regression test left out
Regression_Never(size, previous_size) == FALSE

\* the regression test without the first iteration, whose previous count 0
\* is no count
Regression_FromZero(size, previous_size) ==
    size < previous_size \/ (size = 0 /\ previous_size = 0)

\* the regression test with <= in place of <
Regression_OrEqual(size, previous_size) == size <= previous_size

\* line 120
Regression(size, previous_size) == size < previous_size

\* the revert forgotten
RevertedClause_Kept(current, previous) == current

\* line 122: the clause used after a regression
RevertedClause(current, previous) == previous

\* the cap compared with > in place of >=
CapReached_Strict(size, cap) == size > cap

\* line 128
CapReached(size, cap) == size >= cap

\* the budget compared with > in place of >=
BudgetExhausted_OffByOne(size, cap, loops) == size < cap /\ loops > MAX_DB_HITS

\* the budget test without its size < max_result_cap half
BudgetExhausted_IgnoresCap(size, cap, loops) == loops >= MAX_DB_HITS

\* line 130
BudgetExhausted(size, cap, loops) == size < cap /\ loops >= MAX_DB_HITS

\* lines 176-180: sorted(sorted_list, key = distance), a stable sort
\* a sort that puts a row after the later rows at the same distance
RECURSIVE InsertByDistance_Unstable(_, _)
InsertByDistance_Unstable(elem, sorted) ==
    IF Len(sorted) = 0 THEN << elem >>
    ELSE IF elem[2] < Head(sorted)[2] THEN << elem >> \o sorted
    ELSE << Head(sorted) >> \o InsertByDistance_Unstable(elem, Tail(sorted))

RECURSIVE InsertByDistance(_, _)
InsertByDistance(elem, sorted) ==
    IF Len(sorted) = 0 THEN << elem >>
    ELSE IF elem[2] <= Head(sorted)[2] THEN << elem >> \o sorted
    ELSE << Head(sorted) >> \o InsertByDistance(elem, Tail(sorted))

RECURSIVE SortByDistance(_)
SortByDistance(list) ==
    IF Len(list) = 0 THEN << >>
    ELSE InsertByDistance(Head(list), SortByDistance(Tail(list)))

\* lines 176-181
Materialized(rows, lat, lon, lo, hi) ==
    LET sorted_list ==
            SortByDistance([ i \in 1 .. Len(rows) |->
                << rows[i], distance(lat, lon, rows[i].lat, rows[i].lon) >> ])
    IN  PySlice([ i \in 1 .. Len(sorted_list) |-> sorted_list[i][1] ], lo, hi)

\* fall_back left unset on an empty clause
EmptyFallsBack_Unset == FALSE

\* line 112: an empty geohash clause falls back
EmptyFallsBack == TRUE

\* the rows fetched whether or not the search fell back
FetchAllowed_Always(fell_back) == TRUE

\* line 172: the rows are fetched unless the search fell back
FetchAllowed(fell_back) == ~ fell_back

Init ==
    /\ pc = "validate"
    /\ \E r \in Requests :
          /\ latNum = r.latNum /\ lonNum = r.lonNum
          /\ lcInt = r.lcInt /\ ucInt = r.ucInt
          /\ lower_cut = r.lower_cut /\ upper_cut = r.upper_cut
          /\ custom_where_clause = r.custom_where_clause
          /\ select_cols = r.select_cols
          /\ caller_cols = r.select_cols
    /\ latitude = 1 /\ longitude = 0
    /\ max_result_cap = 0
    /\ precision = 0 /\ previous_precision = 0
    /\ previous_result_size = 0 /\ previous_where_clause = << >>
    /\ stop = FALSE /\ fall_back = FALSE /\ loop_count = 0
    /\ where_clause = << >> /\ result_size = 0
    /\ data = << >> /\ result = << >> /\ outcome = "running"
    /\ countPreds = {} /\ countQueries = 0
    /\ lastCountPred = << >> /\ lastProbed = 0
    /\ fetchPreds = << >> /\ iterations = 0 /\ emptyAt = 0
    /\ allBelow = TRUE /\ regressed = FALSE
    /\ bound_ranges = << >> /\ probeOrder = "falling"
    /\ maxCount = 0 /\ maxClause = << >>

Inputs == << latNum, lonNum, lcInt, ucInt, latitude, longitude, lower_cut,
             upper_cut, custom_where_clause, caller_cols >>
LoopVars == << precision, previous_precision, previous_result_size,
               previous_where_clause, stop, fall_back, loop_count,
               where_clause, result_size >>
CountHistory == << countPreds, countQueries, lastCountPred, lastProbed,
                   allBelow, regressed, probeOrder, maxCount, maxClause >>
LoopHistory == << iterations, emptyAt, bound_ranges >>

\* lines 88-89: the check of the parameters fails
RaiseInvalidParam ==
    /\ pc = "validate"
    /\ InvalidParams(latNum, lonNum, lcInt, ucInt)
    /\ pc' = "done" /\ outcome' = "InvalidParamException"
    /\ UNCHANGED << Inputs, LoopVars, select_cols, max_result_cap, data,
                    result, CountHistory, LoopHistory, fetchPreds >>

\* lines 88-106: the check passes; geohash.encode_uint64 returns
Enter ==
    /\ pc = "validate"
    /\ ~ InvalidParams(latNum, lonNum, lcInt, ucInt)
    /\ latNum /\ lonNum
    /\ select_cols' = AppendIfAbsent(AppendIfAbsent(select_cols, LatCol), LonCol)
    /\ max_result_cap' = ResultCap(upper_cut)
    /\ precision' = StartPrecision /\ previous_precision' = StartPrecision
    /\ previous_result_size' = 0 /\ previous_where_clause' = << >>
    /\ stop' = FALSE /\ fall_back' = FALSE /\ loop_count' = 0
    /\ pc' = "loop"
    /\ UNCHANGED << Inputs, where_clause, result_size, data, result, outcome,
                    CountHistory, LoopHistory, fetchPreds >>

\* lines 88-98: the check passes and geohash.encode_uint64 raises on a
\* latitude or longitude that is a str
EncodeRaises ==
    /\ pc = "validate"
    /\ ~ InvalidParams(latNum, lonNum, lcInt, ucInt)
    /\ ~ (latNum /\ lonNum)
    /\ select_cols' = AppendIfAbsent(AppendIfAbsent(select_cols, LatCol), LonCol)
    /\ max_result_cap' = ResultCap(upper_cut)
    /\ pc' = "done" /\ outcome' = "OtherException"
    /\ UNCHANGED << Inputs, LoopVars, data, result, CountHistory,
                    LoopHistory, fetchPreds >>

\* lines 107-112: an iteration whose geohash clause is empty
LoopEmpty ==
    /\ pc = "loop" /\ ~ stop /\ ~ fall_back
    /\ \E ranges \in ExpandResults(precision) :
          /\ Len(get_geohash_where_clause(ranges, GeoCol)) = 0
          /\ where_clause' = get_geohash_where_clause(ranges, GeoCol)
          /\ bound_ranges' = ranges
    /\ stop' = TRUE /\ fall_back' = EmptyFallsBack
    /\ iterations' = iterations + 1
    /\ emptyAt' = iterations + 1
    /\ UNCHANGED << Inputs, select_cols, max_result_cap, precision,
                    previous_precision, previous_result_size,
                    previous_where_clause, loop_count, result_size,
                    pc, data, result, outcome, CountHistory, fetchPreds >>

\* lines 107-171: an iteration that issues a count query
LoopCount ==
    /\ pc = "loop" /\ ~ stop /\ ~ fall_back
    /\ \E ranges \in ExpandResults(precision), size \in Counts(max_result_cap) :
          LET clause == get_geohash_where_clause(ranges, GeoCol)
              counted == CombinedClause(clause, custom_where_clause)
              regress == Regression(size, previous_result_size)
          IN  /\ Len(clause) # 0
              /\ bound_ranges' = ranges
              /\ probeOrder' =
                    IF countQueries = 0 \/ precision < lastProbed
                    THEN probeOrder
                    ELSE IF precision = lastProbed /\ probeOrder # "rose"
                    THEN "repeated"
                    ELSE "rose"
              /\ maxCount' = Max(maxCount, size)
              /\ maxClause' = IF size >= maxCount THEN counted ELSE maxClause
              /\ countPreds' = countPreds \cup { counted }
              /\ countQueries' = countQueries + 1
              /\ lastCountPred' = counted
              /\ lastProbed' = precision
              /\ allBelow' = (allBelow /\ size < max_result_cap)
              /\ regressed' = (size < previous_result_size)
              /\ result_size' = size
              /\ loop_count' = loop_count + 1
              /\ where_clause' =
                    IF regress THEN RevertedClause(counted, previous_where_clause)
                    ELSE counted
              /\ previous_result_size' =
                    IF regress THEN previous_result_size ELSE size
              /\ previous_precision' =
                    IF regress THEN previous_precision ELSE precision
              /\ previous_where_clause' =
                    IF regress THEN previous_where_clause ELSE counted
              /\ IF BudgetExhausted(size, max_result_cap, loop_count + 1)
                 THEN /\ stop' = TRUE
                      /\ fall_back' = TRUE
                      /\ precision' = precision
                 ELSE /\ stop' = (regress \/ CapReached(size, max_result_cap))
                      /\ fall_back' = FALSE
                      /\ precision' =
                            AdjustPrecision(precision, size, max_result_cap)
    /\ iterations' = iterations + 1
    /\ UNCHANGED << Inputs, select_cols, max_result_cap, pc, data, result,
                    outcome, fetchPreds, emptyAt >>

\* lines 172-181: the fetch, the sort and the slice
Materialize ==
    /\ pc = "loop" /\ (stop \/ fall_back)
    /\ FetchAllowed(fall_back)
    /\ fetchPreds' = Append(fetchPreds, where_clause)
    /\ \E pattern \in Patterns :
          data' = Rows(previous_result_size, pattern, longitude)
    /\ IF lcInt /\ ucInt
       THEN /\ result' = Materialized(data', latitude, longitude,
                                        lower_cut, upper_cut)
            /\ outcome' = "rows"
       ELSE \* a slice index that is a float raises TypeError
            /\ result' = << >>
            /\ outcome' = "OtherException"
    /\ pc' = "done"
    /\ UNCHANGED << Inputs, LoopVars, select_cols, max_result_cap,
                    CountHistory, LoopHistory >>

\* lines 182-183
ReturnNone ==
    /\ pc = "loop" /\ (stop \/ fall_back)
    /\ ~ FetchAllowed(fall_back)
    /\ outcome' = "None"
    /\ pc' = "done"
    /\ UNCHANGED << Inputs, LoopVars, select_cols, max_result_cap, data,
                    result, CountHistory, LoopHistory, fetchPreds >>

Next ==
    \/ RaiseInvalidParam
    \/ Enter
    \/ EncodeRaises
    \/ LoopEmpty
    \/ LoopCount
    \/ Materialize
    \/ ReturnNone

\* Every variable but those named in a specification of one step alone
Untouched == << Inputs, select_cols, data, result, countPreds, countQueries,
                lastCountPred, lastProbed, allBelow, regressed, probeOrder,
                maxCount, maxClause, fetchPreds, iterations, emptyAt >>

AtRest ==
    /\ latNum = TRUE /\ lonNum = TRUE /\ lcInt = TRUE /\ ucInt = TRUE
    /\ latitude = 1 /\ longitude = 0
    /\ lower_cut = BaseRequest.lower_cut /\ upper_cut = BaseRequest.upper_cut
    /\ custom_where_clause = << >>
    /\ select_cols = BaseRequest.select_cols
    /\ caller_cols = BaseRequest.select_cols
    /\ data = << >> /\ result = << >>
    /\ countPreds = {} /\ countQueries = 0
    /\ lastCountPred = << >> /\ lastProbed = StartPrecision
    /\ fetchPreds = << >> /\ iterations = 0 /\ emptyAt = 0
    /\ allBelow = TRUE /\ regressed = FALSE
    /\ probeOrder = "falling" /\ maxCount = 0 /\ maxClause = << >>

\* The precision step alone, lines 134-171, from every state a continuing
\* iteration can be in when it gets there: any precision of 0 .. 50, any
\* cap of 20 and more, any count below the cap, recorded at lines 125-127.
InitStep ==
    /\ AtRest
    /\ pc = "step"
    /\ outcome = "running"
    /\ max_result_cap \in MinResultCap .. MinResultCap + MaxStepCapOver
    /\ precision \in 0 .. StartPrecision
    /\ result_size \in 0 .. max_result_cap - 1
    /\ previous_precision = precision
    /\ previous_result_size = result_size
    /\ loop_count = 1
    /\ stop = FALSE /\ fall_back = FALSE
    /\ where_clause = get_geohash_where_clause(RangesAt(precision), GeoCol)
    /\ previous_where_clause = where_clause
    /\ bound_ranges = RangesAt(precision)

PrecisionStep ==
    /\ pc = "step"
    /\ ~ BudgetExhausted(result_size, max_result_cap, loop_count)
    /\ precision' = AdjustPrecision(precision, result_size, max_result_cap)
    /\ pc' = "stepped"
    /\ UNCHANGED << Untouched, max_result_cap, result_size,
                    previous_precision, previous_result_size, loop_count,
                    stop, fall_back, where_clause, previous_where_clause,
                    bound_ranges, outcome >>

NextStep == PrecisionStep

\* What geohash.expand_uint64 can hand to lines 39-45: up to MaxRanges
\* ranges, each bound None or an unsigned integer
BoundValues == { None } \cup (0 .. MaxBound)

RangeLists ==
    UNION { [ 1 .. n -> BoundValues \X BoundValues ] : n \in 0 .. MaxRanges }

\* get_geohash_where_clause alone, lines 38-49, on every list of ranges
InitClause ==
    /\ AtRest
    /\ pc = "build"
    /\ outcome = "running"
    /\ bound_ranges \in RangeLists
    /\ max_result_cap = ResultCap(upper_cut)
    /\ precision = StartPrecision
    /\ previous_precision = StartPrecision
    /\ result_size = 0 /\ previous_result_size = 0
    /\ loop_count = 0
    /\ stop = FALSE /\ fall_back = FALSE
    /\ where_clause = << >>
    /\ previous_where_clause = << >>

BuildClause ==
    /\ pc = "build"
    /\ where_clause' = get_geohash_where_clause(bound_ranges, GeoCol)
    /\ pc' = "built"
    /\ UNCHANGED << Untouched, max_result_cap, result_size, precision,
                    previous_precision, previous_result_size, loop_count,
                    stop, fall_back, previous_where_clause, bound_ranges,
                    outcome >>

NextClause == BuildClause

SpecClause == InitClause /\ [][NextClause]_vars

SpecStep == InitStep /\ [][NextStep]_vars

Spec == Init /\ [][Next]_vars

\* lines 172-183: the loop left, the function returns, with the rows
\* (Materialize) or with None (ReturnNone)
Returns == pc = "loop" /\ (stop \/ fall_back) /\ pc' = "done"

\* The call runs in one thread, and every query it waits for returns: the
\* validation, the entry and every iteration of the loop that can run do
\* run, and the function returns once the loop is left.  A step of Spec
\* that changes pc as Returns does is a step of Materialize or ReturnNone,
\* one of which is enabled whenever the loop is left.
FairSpec ==
    /\ Spec
    /\ WF_vars(RaiseInvalidParam \/ Enter \/ EncodeRaises)
    /\ WF_vars(LoopEmpty \/ LoopCount)
    /\ WF_pc(Returns)

-----------------------------------------------------------------------------
(* Properties *)

Done == pc = "done"
LoopLeft == pc = "done" \/ (pc = "loop" /\ (stop \/ fall_back))
FetchIssued == Len(fetchPreds) > 0
AnyParamInvalid == ~ latNum \/ ~ lonNum \/ ~ lcInt \/ ~ ucInt

\* C1: the loop count, which is the number of count queries issued, never
\* exceeds MAX_DB_HITS.
C1_LoopCountWithinBudget ==
    /\ loop_count = countQueries
    /\ countQueries <= MAX_DB_HITS

\* C1: a search that has issued MAX_DB_HITS count queries and ended.
C1_Witness == Done /\ countQueries = MAX_DB_HITS

\* C2: when latitude or longitude is no number, or lower_cut or upper_cut
\* is no integer, the call raises InvalidParamException and no count or
\* fetch query is issued.
C2_InvalidParamsRejected ==
    AnyParamInvalid =>
        /\ countQueries = 0
        /\ ~ FetchIssued
        /\ Done => outcome = "InvalidParamException"

\* C3: after an iteration whose count is below the count recorded before
\* it, the clause in use is the clause recorded by the last iteration that
\* did not regress, a clause that was counted; a fetch that follows is
\* given that clause.
C3_RegressionUsesPreviousClause ==
    regressed =>
        /\ where_clause = previous_where_clause
        /\ previous_where_clause \in countPreds
        /\ Len(previous_where_clause) > 0
        /\ FetchIssued => fetchPreds = << previous_where_clause >>

\* C3: a fetch after a regression, with a clause other than the one the
\* regressing count query was given.
C3_Witness ==
    /\ Done /\ regressed /\ FetchIssued
    /\ fetchPreds[1] # lastCountPred

\* C4: when the geohash clause of the first iteration is empty the search
\* returns None, and no count query and no fetch query is issued.
C4_EmptyFirstFallsBack ==
    emptyAt = 1 =>
        /\ countQueries = 0
        /\ ~ FetchIssued
        /\ LoopLeft /\ fall_back
        /\ Done => outcome = "None"

\* C4: a search ended after an empty clause in its first iteration.
C4_Witness == Done /\ emptyAt = 1 /\ iterations = 1

\* C5: a search that falls back, on an empty clause or on the exhausted
\* budget, returns None: no fetch query is issued and no row is returned.
C5_FallbackReturnsNothing ==
    (Done /\ fall_back) =>
        /\ outcome = "None"
        /\ ~ FetchIssued
        /\ data = << >> /\ result = << >>

\* C5: a fall back on the exhausted budget, after some rows were counted.
C5_Witness ==
    /\ Done /\ fall_back /\ emptyAt = 0
    /\ countQueries = MAX_DB_HITS /\ previous_result_size > 0

ReturnedOrFellBack == Done /\ outcome \in { "rows", "None" }

\* C6 as claimed, for a codec whose ranges always bound the column: when
\* upper_cut <= 20 and every count is below the cap of 20, the search
\* returns None after MAX_DB_HITS count queries and never returns rows.
C6_SparseAlwaysFallsBack ==
    (ReturnedOrFellBack /\ max_result_cap = MinResultCap /\ allBelow
       /\ emptyAt = 0)
    => (outcome = "None" /\ countQueries = MAX_DB_HITS)

\* C6 amended: when upper_cut <= 20 and every count is below the cap of 20,
\* the search returns None unless a count falls below the count recorded
\* before it earlier than the 20th query, in which case it returns rows;
\* None is returned after exactly MAX_DB_HITS count queries unless the
\* geohash clause became empty first.
C6_SparseFallsBackUnlessRegression ==
    (ReturnedOrFellBack /\ max_result_cap = MinResultCap /\ allBelow)
    => /\ outcome = "rows" => (regressed /\ countQueries < MAX_DB_HITS)
       /\ outcome = "None" => (emptyAt # 0 \/ countQueries = MAX_DB_HITS)
       /\ (~ regressed /\ emptyAt = 0)
            => (outcome = "None" /\ countQueries = MAX_DB_HITS)

\* C6: three rows counted at the end of a search that never regressed and
\* fell back on the exhausted budget.
C6_Witness ==
    /\ Done /\ upper_cut <= 20 /\ allBelow /\ ~ regressed /\ emptyAt = 0
    /\ previous_result_size = 3
    /\ outcome = "None" /\ countQueries = MAX_DB_HITS

\* C7: in a well-formed call, when the count at the starting precision
\* reaches the cap, the loop is left after that one count query, not fallen back, with the clause
\* built at the starting precision, and precision is still the starting
\* precision.
C7_DenseConvergesAtStart ==
    (~ AnyParamInvalid /\ countQueries >= 1 /\ lastProbed = StartPrecision
       /\ result_size >= max_result_cap)
    => /\ countQueries = 1
       /\ LoopLeft /\ stop /\ ~ fall_back
       /\ where_clause = lastCountPred
       /\ FetchIssued => fetchPreds = << lastCountPred >>
       /\ precision = StartPrecision

\* C8 as claimed: with 0 <= lower_cut <= upper_cut the rows returned number
\* at most upper_cut - lower_cut, and exactly that many whenever at least
\* upper_cut - lower_cut rows match the clause fetched.
C8_PageFullWhenEnoughRows ==
    (Done /\ outcome = "rows" /\ 0 <= lower_cut /\ lower_cut <= upper_cut)
    => /\ Len(result) <= upper_cut - lower_cut
       /\ Len(data) >= upper_cut - lower_cut
            => Len(result) = upper_cut - lower_cut

\* C8 amended: with 0 <= lower_cut <= upper_cut the rows returned number
\* max(0, min(upper_cut, n) - lower_cut) for n rows fetched: at most
\* upper_cut - lower_cut, and exactly that many whenever at least
\* upper_cut rows match the clause fetched.
C8_PageFullWhenUpperCutRows ==
    (Done /\ outcome = "rows" /\ 0 <= lower_cut /\ lower_cut <= upper_cut)
    => /\ Len(result) <= upper_cut - lower_cut
       /\ Len(result) = Max(0, Min(upper_cut, Len(data)) - lower_cut)
       /\ Len(data) >= upper_cut => Len(result) = upper_cut - lower_cut

\* C8: a full page that does not start at the first row.
C8_Witness ==
    /\ Done /\ outcome = "rows"
    /\ 0 < lower_cut /\ lower_cut < upper_cut
    /\ Len(data) >= upper_cut
    /\ Len(result) = upper_cut - lower_cut

\* the distance of a fetched row to the point searched around
Dist(row) == distance(latitude, longitude, row.lat, row.lon)

\* the place of data[i] among the fetched rows in order of distance, rows
\* at one distance in the order fetched
RankOf(i) ==
    1 + Cardinality({ j \in 1 .. Len(data) :
                        \/ Dist(data[j]) < Dist(data[i])
                        \/ Dist(data[j]) = Dist(data[i]) /\ j < i })

\* C9: the rows returned are in non-decreasing order of distance, and they
\* are the rows at places lower_cut + 1 .. upper_cut of the fetched rows
\* ordered by distance, rows at one distance kept in the order fetched.
C9_SortedStableSlice ==
    (Done /\ outcome = "rows" /\ lower_cut >= 0 /\ upper_cut >= 0)
    => /\ \A k \in 1 .. Len(result) - 1 :
             Dist(result[k]) <= Dist(result[k + 1])
       /\ Len(result) =
             Max(0, Min(upper_cut, Len(data)) - Min(lower_cut, Len(data)))
       /\ \A k \in 1 .. Len(result) :
             \E i \in 1 .. Len(data) :
                 result[k] = data[i] /\ RankOf(i) = lower_cut + k

\* C9: a page off the start of rows fetched out of order, holding two rows
\* at one distance and a row farther than another.
C9_Witness ==
    /\ Done /\ outcome = "rows" /\ lower_cut > 0
    /\ \E i \in 1 .. Len(data) - 1 : Dist(data[i]) > Dist(data[i + 1])
    /\ \E k \in 1 .. Len(result) - 1 : Dist(result[k]) = Dist(result[k + 1])
    /\ \E k \in 1 .. Len(result) - 1 : Dist(result[k]) < Dist(result[k + 1])

\* the geohash clause built at a precision
GeohashClause(p) == get_geohash_where_clause(RangesAt(p), GeoCol)

\* clause ends with the custom clause, which occurs nowhere else in it
EndsWithCustomOnce(clause) ==
    LET n == Len(clause)
        m == Len(custom_where_clause)
    IN  /\ n > m
        /\ SubSeq(clause, n - m + 1, n) = custom_where_clause
        /\ \A i \in 1 .. n - m : clause[i] # custom_where_clause[1]

\* C10: with a custom clause, every clause given to a count query is the
\* geohash clause of the precision probed followed by the custom clause,
\* once and unchanged, and the clause given to the fetch query is the
\* geohash clause of the precision last recorded followed by the custom
\* clause.
C10_CustomClauseAppendedOnce ==
    Len(custom_where_clause) > 0
    => /\ \A clause \in countPreds : EndsWithCustomOnce(clause)
       /\ countQueries >= 1
            => lastCountPred = GeohashClause(lastProbed) \o custom_where_clause
       /\ FetchIssued
            => /\ fetchPreds =
                    << GeohashClause(previous_precision) \o custom_where_clause >>
               /\ fetchPreds[1] \in countPreds

\* C10: a fetch with a custom clause after a regression, given the clause
\* of an earlier precision.
C10_Witness ==
    /\ Done /\ Len(custom_where_clause) > 0 /\ FetchIssued /\ regressed
    /\ fetchPreds[1] # lastCountPred

\* C11: an iteration whose count is below the previous count ends the
\* loop converged, also when it is the iteration of the MAX_DB_HITS-th count
\* query, and a call that converged this way never falls back.
C11_RegressionConverges ==
    regressed
    => /\ LoopLeft
       /\ stop
       /\ ~ fall_back
       /\ Done => outcome # "None"

\* C12: an iteration whose count is at least max_result_cap, which is
\* max(upper_cut, 20), ends the loop converged with the clause of that very
\* iteration, which is the clause the fetch query is given; the iteration
\* is no regression.
C12_CapHitKeepsCurrentClause ==
    (countQueries >= 1 /\ result_size >= max_result_cap)
    => /\ max_result_cap = Max(upper_cut, MinResultCap)
       /\ LoopLeft
       /\ stop
       /\ ~ fall_back
       /\ ~ regressed
       /\ emptyAt = 0
       /\ where_clause = lastCountPred
       /\ FetchIssued => fetchPreds = << lastCountPred >>
       /\ Done => (FetchIssued /\ outcome # "None")

\* C12: a call that ended after a later count query reached a cap above 20.
C12_Witness ==
    /\ Done /\ outcome = "rows"
    /\ countQueries > 1
    /\ max_result_cap > MinResultCap
    /\ result_size >= max_result_cap

\* C13: the call falls back exactly when the geohash clause came out empty
\* or the MAX_DB_HITS-th count query returned less than max_result_cap; it
\* never falls back when the last count is at least max_result_cap.
C13_FallbackIffEmptyOrBudget ==
    /\ fall_back
        <=> \/ emptyAt # 0
            \/ countQueries >= MAX_DB_HITS /\ result_size < max_result_cap
    /\ (countQueries >= 1 /\ result_size >= max_result_cap) => ~ fall_back
    /\ Done => (outcome = "None" <=> fall_back)

\* C13: a call that fell back on an empty geohash clause after some count
\* queries and before the budget was used up.
C13_Witness ==
    /\ Done /\ fall_back /\ outcome = "None"
    /\ emptyAt > 1
    /\ countQueries > 0 /\ countQueries < MAX_DB_HITS

\* The next precision by the table of the precision step: the step taken
\* from the share of the cap that the count fills, with the floor of each
\* row and the floor 0 of all.
TableStep(p, count, cap) ==
    IF count = 0 /\ cap > 20 THEN IF p <= 4 THEN p - 1 ELSE Max(4, p - 8)
    ELSE IF count = 0 THEN IF p <= 4 THEN p - 1 ELSE Max(4, p - 7)
    ELSE IF count * 20 <= cap THEN IF p <= 4 THEN p - 1 ELSE Max(4, p - 6)
    ELSE IF count * 4 < cap THEN IF p <= 4 THEN p - 1 ELSE Max(4, p - 4)
    ELSE IF count * 2 < cap THEN IF p <= 3 THEN p - 1 ELSE Max(3, p - 2)
    ELSE p - 1

\* C14: for every precision of 0 .. 50, every cap of 20 and more and every
\* count below the cap, the precision after the step of a continuing
\* iteration is the value of the table (8 down to no less than 4 for no
\* rows under a cap above 20, 7 for no rows under the cap 20, 6 up to a
\* twentieth, 4 under a quarter, each 1 from a precision of 4 or less; 2
\* down to no less than 3 under a half, 1 from 3 or less; 1 from a half on),
\* and never below 0.
C14_PrecisionTable ==
    pc = "stepped"
    => /\ precision = Max(0, TableStep(previous_precision, result_size,
                                       max_result_cap))
       /\ precision \in 0 .. StartPrecision

\* C14: the step from 5 at exactly a quarter of the cap 24, which takes the
\* row "under a half" and its floor.
C14_Witness ==
    /\ pc = "stepped"
    /\ max_result_cap = 24 /\ result_size = 6
    /\ previous_precision = 5 /\ precision = 3

\* C15: the precision stays within 0 .. 50, and every count query probes a
\* precision strictly below that of the count query before it, so that no
\* precision is probed twice.
C15_PrecisionStrictlyFalls ==
    /\ precision \in 0 .. StartPrecision
    /\ lastProbed \in 0 .. StartPrecision
    /\ probeOrder = "falling"

\* C15, amended: the precision stays within 0 .. 50 and no count query
\* probes a precision above that of the count query before it; it probes a
\* strictly lower one as long as that precision was above 0, and probes 0
\* again once 0 has been probed, so that 0 is the only precision probed
\* more than once; an iteration that goes on leaves the precision of the
\* next count query so.
C15_PrecisionFallsToZero ==
    /\ precision \in 0 .. StartPrecision
    /\ lastProbed \in 0 .. StartPrecision
    /\ probeOrder \in { "falling", "repeated" }
    /\ probeOrder = "repeated" => (lastProbed = 0 /\ precision = 0)
    /\ (pc = "loop" /\ ~ stop /\ ~ fall_back /\ countQueries >= 1)
        => \/ precision < lastProbed
           \/ precision = 0 /\ lastProbed = 0

\* C15: a call whose count queries went down to precision 0 and probed it
\* again.
C15_Witness ==
    /\ Done
    /\ probeOrder = "repeated"
    /\ lastProbed = 0
    /\ countQueries > 12

\* C16: every call ends; one that went through the loop ends either
\* converged, with exactly one fetch query, or fallen back, with none and
\* nothing returned, and no count query follows the fetch query.
C16_EndsConvergedOrFallenBack ==
    /\ <>Done
    /\ [](pc = "loop" => ~ FetchIssued)
    /\ []((Done /\ iterations > 0)
            => \/ /\ ~ fall_back /\ stop
                  /\ Len(fetchPreds) = 1
                  /\ outcome \in { "rows", "OtherException" }
               \/ /\ fall_back
                  /\ Len(fetchPreds) = 0
                  /\ outcome = "None")
    /\ [][FetchIssued => (countQueries' = countQueries
                          /\ fetchPreds' = fetchPreds)]_vars

\* C16: a call that converged after several count queries and issued its
\* one fetch query.
C16_Witness ==
    /\ Done /\ ~ fall_back /\ stop
    /\ countQueries > 2
    /\ Len(fetchPreds) = 1
    /\ ~ regressed

\* The clause of one range by the bounds it has
ClauseOfPresent(bound_range) ==
    IF bound_range[1] # None /\ bound_range[2] # None
    THEN << << "(", GeoCol, ">=", ToString(bound_range[1]), " AND ",
               GeoCol, "<", ToString(bound_range[2]), ")" >> >>
    ELSE IF bound_range[1] # None
    THEN << << "(", GeoCol, ">=", ToString(bound_range[1]), ")" >> >>
    ELSE IF bound_range[2] # None
    THEN << << "(", GeoCol, "<", ToString(bound_range[2]), ")" >> >>
    ELSE << >>

RECURSIVE ClausesOfPresent(_)
ClausesOfPresent(ranges) ==
    IF Len(ranges) = 0 THEN << >>
    ELSE ClauseOfPresent(Head(ranges)) \o ClausesOfPresent(Tail(ranges))

\* C17: for every list of ranges, each bound absent or an unsigned integer,
\* 0 included, the clause built is the OR of one clause for each range
\* that has a bound, made of the bounds the range has, and it is empty
\* exactly when no range has a bound.
C17_ClauseByPresentBounds ==
    pc = "built"
    => /\ where_clause =
            IF Len(ClausesOfPresent(bound_ranges)) = 0 THEN << >>
            ELSE << "(" >> \o JoinOr(ClausesOfPresent(bound_ranges))
                 \o << ")" >>
       /\ where_clause = << >>
            <=> \A i \in 1 .. Len(bound_ranges) :
                    bound_ranges[i] = << None, None >>

\* C18: the call leaves the request of its caller as it was: the list of
\* columns passed in holds the same columns during and after the call,
\* however the call ends.
C18_CallerColumnsUnchanged == select_cols = caller_cols

\* C19: the clause of a fetch query is not empty and was the clause of a
\* count query of the same call before; a regression occurs only after a
\* count above 0 was recorded, so that the empty previous clause of the
\* start is never restored.
C19_FetchClauseWasCounted ==
    /\ FetchIssued
        => /\ Len(fetchPreds[1]) > 0
           /\ fetchPreds[1] \in countPreds
           /\ countQueries >= 1
    /\ regressed
        => /\ previous_result_size > 0
           /\ Len(previous_where_clause) > 0
           /\ previous_where_clause \in countPreds
           /\ where_clause = previous_where_clause

\* C19: a fetch after a regression from the least count above 0 to 0.
C19_Witness ==
    /\ Done /\ FetchIssued /\ regressed
    /\ previous_result_size = 1 /\ result_size = 0
    /\ Len(custom_where_clause) = 0

\* C20: the count recorded is the largest count any count query of the
\* call returned, so it never goes down; when the loop ends converged it
\* is the count that the count query of the accepted clause returned, and
\* while the loop goes on it is below max_result_cap.
C20_RecordedCountIsLargest ==
    /\ previous_result_size = maxCount
    /\ result_size <= maxCount
    /\ (pc # "validate" /\ stop /\ ~ fall_back /\ countQueries >= 1)
        => /\ where_clause = maxClause
           /\ FetchIssued => fetchPreds = << maxClause >>
    /\ (pc = "loop" /\ ~ stop /\ ~ fall_back)
        => previous_result_size < max_result_cap

\* C20: a call that converged on a regression after three count queries or
\* more, with the largest count recorded.
C20_Witness ==
    /\ Done /\ outcome = "rows" /\ regressed
    /\ countQueries > 2
    /\ result_size < maxCount
    /\ previous_result_size = 12

=============================================================================
